---- MODULE Spec2Model ----
(***************************************************************************)
(* State-machine model of ph-pharma.script.js (src/main.js): the table     *)
(* filter / sorter, the modal helpers, the clipboard helper and the chart  *)
(* mounting helper.  Text is modelled as TLA+ strings over the character   *)
(* set Chars; a DOM element is a record or function of the attributes the  *)
(* script reads and writes.                                                *)
(***************************************************************************)
EXTENDS Integers, Sequences, FiniteSets, TLC

(***************************************************************************)
(* Bounds of the model.                                                    *)
(***************************************************************************)
NumRows == 3        \* rows in the body of the sortable table
NumModals == 4      \* .modal elements of the page
MaxCalls == 3       \* clipboard writes that may be started
NumCanvases == 2    \* .chart-canvas elements of the page

VARIABLES
  cells,        \* row -> sequence of cell texts (textContent of each <td>)
  order,        \* child order of the table body: sequence of rows
  display,      \* row -> style.display ("" or "none")
  inputValue,   \* value of the filter <input>
  sortCol,      \* table attribute data-sort-col ("null" when absent)
  sortDir,      \* table attribute data-sort-dir ("null" when absent)
  hist,         \* history: what the last three sorts used and left
  modalHidden,  \* modal -> has class "hidden"
  ariaHidden,   \* modal -> attribute aria-hidden
  modalLog,     \* history: the last modal event
  libLoaded,    \* window.Chart is present
  cfgKind,      \* canvas -> shape of its data-chart-config attribute
  skeleton,     \* canvas -> has class "skeleton"
  mounted,      \* history: canvas -> what the last mountCharts did to it
  calls,        \* clipboard call -> its position and outcome
  copied,       \* the .copy-btn has class "copied"
  timers        \* pending setTimeout callbacks that remove "copied"

tableVars == <<cells, order, display, inputValue, sortCol, sortDir, hist>>
modalVars == <<modalHidden, ariaHidden, modalLog>>
chartVars == <<libLoaded, cfgKind, skeleton, mounted>>
copyVars == <<calls, copied, timers>>
vars == <<tableVars, modalVars, chartVars, copyVars>>

(***************************************************************************)
(* Text helpers: String.prototype.trim, toLowerCase, includes, replace,    *)
(* and the relational operators on strings.                                *)
(***************************************************************************)
\* The characters of the model, in increasing UTF-16 code unit order.
Chars == " $%+,-./0123456789ABCDEFGHIJKLMNOPQRSTUVWXYZabcdefghijklmnopqrstuvwxyz"
CharAt(s, i) == SubSeq(s, i, i)
CharSet == {CharAt(Chars, i) : i \in 1..Len(Chars)}

\* The position of each character in Chars: its rank among code units.
CodeMap == [c \in CharSet |-> CHOOSE i \in 1..Len(Chars) : CharAt(Chars, i) = c]
CodeOf(c) == CodeMap[c]
IsSpace(c) == c = " "
IsDigit(c) == c \in {"0", "1", "2", "3", "4", "5", "6", "7", "8", "9"}
DigitVal(c) == CodeOf(c) - CodeOf("0")

\* toLowerCase of one character: A..Z map to a..z, the rest to themselves.
LowerMap ==
  [c \in CharSet |->
     IF CodeMap[c] >= CodeMap["A"] /\ CodeMap[c] <= CodeMap["Z"]
       THEN CharAt(Chars, CodeMap[c] + (CodeMap["a"] - CodeMap["A"]))
       ELSE c]
LowerChar(c) == LowerMap[c]

RECURSIVE toLowerCase(_)
toLowerCase(s) ==
  IF s = "" THEN "" ELSE LowerChar(CharAt(s, 1)) \o toLowerCase(Tail(s))

RECURSIVE trimStart(_)
trimStart(s) ==
  IF s # "" /\ IsSpace(CharAt(s, 1)) THEN trimStart(Tail(s)) ELSE s

RECURSIVE trimEnd(_)
trimEnd(s) ==
  IF s # "" /\ IsSpace(CharAt(s, Len(s)))
    THEN trimEnd(SubSeq(s, 1, Len(s) - 1))
    ELSE s

trim(s) == trimEnd(trimStart(s))

startsWith(s, p) == Len(p) <= Len(s) /\ SubSeq(s, 1, Len(p)) = p

includes(s, q) ==
  \E i \in 1..(Len(s) + 1) :
      i + Len(q) - 1 <= Len(s) /\ SubSeq(s, i, i + Len(q) - 1) = q

\* txt.replace(/[,$\s%]/g, '')
RECURSIVE stripNumeric(_)
stripNumeric(s) ==
  IF s = "" THEN ""
  ELSE IF CharAt(s, 1) \in {",", "$", "%"} \/ IsSpace(CharAt(s, 1))
         THEN stripNumeric(Tail(s))
         ELSE CharAt(s, 1) \o stripNumeric(Tail(s))

\* a > b on two strings: lexicographic on code units.
RECURSIVE StrGreater(_, _)
StrGreater(a, b) ==
  IF a = "" THEN FALSE
  ELSE IF b = "" THEN TRUE
  ELSE IF CharAt(a, 1) = CharAt(b, 1) THEN StrGreater(Tail(a), Tail(b))
  ELSE CodeOf(CharAt(a, 1)) > CodeOf(CharAt(b, 1))

(***************************************************************************)
(* parseFloat: the longest prefix that is a StrDecimalLiteral.  A finite   *)
(* result is the exact decimal m * 10^e; the texts of the model are short  *)
(* enough for the double nearest to it to compare as the decimal does.     *)
(***************************************************************************)
RECURSIVE DigitsLen(_)
DigitsLen(s) ==
  IF s # "" /\ IsDigit(CharAt(s, 1)) THEN 1 + DigitsLen(Tail(s)) ELSE 0

RECURSIVE DigitsNat(_)
DigitsNat(s) ==
  IF s = "" THEN 0
  ELSE 10 * DigitsNat(SubSeq(s, 1, Len(s) - 1)) + DigitVal(CharAt(s, Len(s)))

Drop(s, n) == SubSeq(s, n + 1, Len(s))

NaN == [k |-> "nan"]

Finite(m, e) == [k |-> "fin", m |-> m, e |-> e]

\* ExponentPart after the "e": an optional sign and at least one digit;
\* without a digit the "e" is not part of the literal.
ParseExponentDigits(r, m, e0) ==
  LET eSigned == r # "" /\ CharAt(r, 1) \in {"+", "-"}
      digits == IF eSigned THEN Tail(r) ELSE r
      ep == DigitsLen(digits)
      ex == DigitsNat(SubSeq(digits, 1, ep))
  IN IF ep = 0 THEN Finite(m, e0)
     ELSE IF eSigned /\ CharAt(r, 1) = "-" THEN Finite(m, e0 - ex)
     ELSE Finite(m, e0 + ex)

ParseExponent(r, m, e0) ==
  IF r # "" /\ CharAt(r, 1) \in {"e", "E"}
    THEN ParseExponentDigits(Tail(r), m, e0)
    ELSE Finite(m, e0)

\* DecimalDigits . DecimalDigits(opt), or . DecimalDigits
ParseFraction(u, sgn, ip, fp) ==
  IF ip = 0 /\ fp = 0 THEN NaN
  ELSE ParseExponent(Drop(u, ip + 1 + fp),
                     sgn * DigitsNat(SubSeq(u, 1, ip) \o SubSeq(u, ip + 2, ip + 1 + fp)),
                     -fp)

ParseMantissa(u, sgn, ip) ==
  IF startsWith(Drop(u, ip), ".")
    THEN ParseFraction(u, sgn, ip, DigitsLen(Drop(u, ip + 1)))
    ELSE IF ip = 0 THEN NaN
    ELSE ParseExponent(Drop(u, ip), sgn * DigitsNat(SubSeq(u, 1, ip)), 0)

ParseUnsigned(u, sgn) ==
  IF startsWith(u, "Infinity") THEN [k |-> "inf", s |-> sgn]
  ELSE ParseMantissa(u, sgn, DigitsLen(u))

ParseSigned(t) ==
  IF t # "" /\ CharAt(t, 1) = "-" THEN ParseUnsigned(Tail(t), -1)
  ELSE IF t # "" /\ CharAt(t, 1) = "+" THEN ParseUnsigned(Tail(t), 1)
  ELSE ParseUnsigned(t, 1)

parseFloat(s) == ParseSigned(trimStart(s))

isFinite(v) == v.k = "fin"

(***************************************************************************)
(* Sort keys and their comparison.                                         *)
(***************************************************************************)
NegInfinity == [t |-> "n", ninf |-> TRUE, m |-> 0, e |-> 0]

\* Faulty variant: an unparseable number cell counts as 0.
parseCellValueZeroFallback(textContent, type) ==
  LET txt == trim(textContent)
  IN IF type = "number"
       THEN LET n == stripNumeric(txt)
                v == parseFloat(n)
            IN IF isFinite(v)
                 THEN [t |-> "n", ninf |-> FALSE, m |-> v.m, e |-> v.e]
                 ELSE [t |-> "n", ninf |-> FALSE, m |-> 0, e |-> 0]
       ELSE [t |-> "s", s |-> toLowerCase(txt)]

\* parseCellValue(cell, type), given cell.textContent
parseCellValue(textContent, type) ==
  LET txt == trim(textContent)
  IN IF type = "number"
       THEN LET n == stripNumeric(txt)
                v == parseFloat(n)
            IN IF isFinite(v)
                 THEN [t |-> "n", ninf |-> FALSE, m |-> v.m, e |-> v.e]
                 ELSE NegInfinity
       ELSE [t |-> "s", s |-> toLowerCase(txt)]

\* Row contents the body may hold: name, amount and an optional third cell.
RowPool ==
  { <<"Pharma Co", "30">>,
    <<"Other", "5">>,
    <<"Alpha", "100">>,
    <<"Apple", "n/a", "-1.5">>,
    <<" apple ", "$1,200 ", "-15e-1 %">> }

\* th[data-sort] headers of the table: parseInt(data-sort), data-type.
Headers ==
  { [idx |-> 0, type |-> "string"],
    [idx |-> 1, type |-> "number"],
    [idx |-> 2, type |-> "number"] }

Types == {h.type : h \in Headers}
CellTexts == {""} \cup UNION {{row[i] : i \in 1..Len(row)} : row \in RowPool}

\* parseCellValue tabulated over the cell texts and types of the model.
SortKey == [txt \in CellTexts |-> [type \in Types |-> parseCellValue(txt, type)]]

RECURSIVE Pow10(_)
Pow10(n) == IF n <= 0 THEN 1 ELSE 10 * Pow10(n - 1)

\* The finite number m * 10^e of key v as an integer multiple of 10^lo.
Scaled(v, lo) == v.m * Pow10(v.e - lo)
MinExp(va, vb) == IF va.e < vb.e THEN va.e ELSE vb.e

\* va === vb
StrictEq(va, vb) ==
  IF va.t = "s" THEN va.s = vb.s
  ELSE IF va.ninf \/ vb.ninf THEN va.ninf /\ vb.ninf
  ELSE Scaled(va, MinExp(va, vb)) = Scaled(vb, MinExp(va, vb))

\* va > vb
Greater(va, vb) ==
  IF va.t = "s" THEN StrGreater(va.s, vb.s)
  ELSE IF va.ninf THEN FALSE
  ELSE IF vb.ninf THEN TRUE
  ELSE Scaled(va, MinExp(va, vb)) > Scaled(vb, MinExp(va, vb))

\* a.cells[index] || { textContent: '' }
CellText(rowCells, index) ==
  IF index >= 0 /\ index < Len(rowCells) THEN rowCells[index + 1] ELSE ""

\* Faulty variant: the comparator forgets dir.
compareIgnoringDirection(a, b, index, type, dir) ==
  LET va == SortKey[CellText(cells[a], index)][type]
      vb == SortKey[CellText(cells[b], index)][type]
  IN IF StrictEq(va, vb) THEN 0
     ELSE IF Greater(va, vb) THEN 1 ELSE -1

\* The comparator handed to rows.sort.
compare(a, b, index, type, dir) ==
  LET va == SortKey[CellText(cells[a], index)][type]
      vb == SortKey[CellText(cells[b], index)][type]
  IN IF StrictEq(va, vb) THEN 0
     ELSE IF Greater(va, vb) THEN dir ELSE -dir

(***************************************************************************)
(* Array.prototype.sort: a stable sort (ECMAScript 2019, the edition whose *)
(* optional catch binding the script uses), modelled as insertion sort.    *)
(***************************************************************************)
\* Faulty variant: a row is put ahead of rows with an equal key.
RECURSIVE InsertUnstable(_, _, _, _, _)
InsertUnstable(sorted, r, index, type, dir) ==
  IF sorted = <<>> THEN <<r>>
  ELSE IF compare(Head(sorted), r, index, type, dir) >= 0
         THEN <<r>> \o sorted
         ELSE <<Head(sorted)>> \o InsertUnstable(Tail(sorted), r, index, type, dir)

RECURSIVE InsertRow(_, _, _, _, _)
InsertRow(sorted, r, index, type, dir) ==
  IF sorted = <<>> THEN <<r>>
  ELSE IF compare(Head(sorted), r, index, type, dir) > 0
         THEN <<r>> \o sorted
         ELSE <<Head(sorted)>> \o InsertRow(Tail(sorted), r, index, type, dir)

\* Faulty variant: a sort that does not keep ties in order.
RECURSIVE ArraySortUnstable(_, _, _, _)
ArraySortUnstable(rows, index, type, dir) ==
  IF rows = <<>> THEN <<>>
  ELSE InsertUnstable(ArraySortUnstable(SubSeq(rows, 1, Len(rows) - 1), index, type, dir),
                      rows[Len(rows)], index, type, dir)

RECURSIVE ArraySort(_, _, _, _)
ArraySort(rows, index, type, dir) ==
  IF rows = <<>> THEN <<>>
  ELSE InsertRow(ArraySort(SubSeq(rows, 1, Len(rows) - 1), index, type, dir),
                 rows[Len(rows)], index, type, dir)

(***************************************************************************)
(* The sortable table and its filter input.                                *)
(***************************************************************************)
Rows == 1..NumRows

\* Values typed into the filter input.
Queries == {"", "ph", " Ap"}

NULL == "null"
String(index) == ToString(index)

\* it.textContent of a row: the text of its cells.
RECURSIVE Concat(_)
Concat(ss) == IF ss = <<>> THEN "" ELSE Head(ss) \o Concat(Tail(ss))
textContent(rowCells) == Concat(rowCells)

\* it.textContent.trim().toLowerCase() tabulated over the rows of the model.
ItemText == [row \in RowPool |-> toLowerCase(trim(textContent(row)))]

\* items: the children of the filter target captured when the script runs.
items == Rows

\* Faulty variant: the query is not lowercased.
FilterDisplayCaseSensitive(value, r) ==
  LET q == trim(value)
      text == ItemText[cells[r]]
  IN IF q = "" \/ includes(text, q) THEN "" ELSE "none"

\* The style.display the input handler gives item r.
FilterDisplay(value, r) ==
  LET q == toLowerCase(trim(value))
      text == ItemText[cells[r]]
  IN IF q = "" \/ includes(text, q) THEN "" ELSE "none"

FilterInput(value) ==
  /\ inputValue' = value
  /\ display' = [r \in Rows |-> IF r \in items THEN FilterDisplay(value, r) ELSE display[r]]
  /\ UNCHANGED <<cells, order, sortCol, sortDir, hist>>
  /\ UNCHANGED <<modalVars, chartVars, copyVars>>

\* Faulty variant: the recorded column is not compared.
SortDirectionAnyColumn(index) == IF sortDir = "asc" THEN -1 ELSE 1

\* Faulty variant: the direction never flips.
SortDirectionAlwaysAscending(index) == 1

\* dir = currentAsc ? -1 : 1
SortDirection(index) ==
  LET currentAsc == sortCol = String(index) /\ sortDir = "asc"
  IN IF currentAsc THEN -1 ELSE 1

RemoveRow(ord, r) == SelectSeq(ord, LAMBDA x : x # r)

\* Faulty variant: rows are appended without leaving their old place.
RECURSIVE ReattachCloned(_, _)
ReattachCloned(ord, rows) ==
  IF rows = <<>> THEN ord ELSE ReattachCloned(Append(ord, Head(rows)), Tail(rows))

\* rows.forEach(r => tbody.appendChild(r)): each row moves to the end.
RECURSIVE Reattach(_, _)
Reattach(ord, rows) ==
  IF rows = <<>> THEN ord
  ELSE Reattach(Append(RemoveRow(ord, Head(rows)), Head(rows)), Tail(rows))

Remember(h, entry) ==
  LET all == Append(h, entry)
  IN IF Len(all) > 3 THEN Tail(all) ELSE all

SortClick(h) ==
  LET rows == order
      dir == SortDirection(h.idx)
      sorted == ArraySort(rows, h.idx, h.type, dir)
  IN /\ order' = Reattach(order, sorted)
     /\ sortCol' = String(h.idx)
     /\ sortDir' = (IF dir = 1 THEN "asc" ELSE "desc")
     /\ hist' = Remember(hist, [sorted |-> TRUE, idx |-> h.idx, type |-> h.type,
                                dir |-> dir, order |-> order',
                                col |-> sortCol', attr |-> sortDir'])
     /\ UNCHANGED <<cells, display, inputValue>>
     /\ UNCHANGED <<modalVars, chartVars, copyVars>>

(***************************************************************************)
(* Modal utilities.                                                        *)
(***************************************************************************)
Modals == 1..NumModals

\* click on [data-modal-open="#m"]
OpenClick(m) ==
  /\ modalHidden' = [modalHidden EXCEPT ![m] = FALSE]
  /\ ariaHidden' = [ariaHidden EXCEPT ![m] = "false"]
  /\ modalLog' = "open"
  /\ UNCHANGED <<tableVars, chartVars, copyVars>>

\* click on a [data-modal-close] button inside modal m
CloseClick(m) ==
  /\ modalHidden' = [modalHidden EXCEPT ![m] = TRUE]
  /\ ariaHidden' = [ariaHidden EXCEPT ![m] = "true"]
  /\ modalLog' = "close"
  /\ UNCHANGED <<tableVars, chartVars, copyVars>>

\* click whose target is the .modal wrapper itself
OverlayClick(m) ==
  /\ modalHidden' = [modalHidden EXCEPT ![m] = TRUE]
  /\ modalLog' = "overlay"
  /\ UNCHANGED <<ariaHidden, tableVars, chartVars, copyVars>>

\* keydown with e.key === 'Escape'
EscapeKey ==
  /\ modalHidden' = [m \in Modals |-> TRUE]
  /\ modalLog' = "escape"
  /\ UNCHANGED <<ariaHidden, tableVars, chartVars, copyVars>>

(***************************************************************************)
(* Chart mounting helper.                                                  *)
(***************************************************************************)
Canvases == 1..NumCanvases

\* Shapes of data-chart-config: absent, inline JSON, or a selector.
CfgKinds ==
  { "absent", "inlineValid", "inlineInvalid", "selectorUnmatched",
    "selectorInvalid", "selectorValid", "selectorBadJson", "selectorFalsyJson" }

\* The try block: the configuration parsed ("parsed"), or cfg stays null.
ParseConfig(kind) ==
  IF kind \in {"inlineValid", "selectorValid"} THEN "parsed" ELSE "null"

\* The catch block ran: JSON.parse or querySelector threw.
ParseThrew(kind) == kind \in {"inlineInvalid", "selectorInvalid", "selectorBadJson"}

NotMounted ==
  [seen |-> FALSE, lib |-> FALSE, parsed |-> FALSE, attempted |-> FALSE,
   cfg |-> "none", before |-> FALSE]

\* Faulty variant: a canvas whose configuration did not parse gets the placeholder.
MountOnePlaceholderOnFailure(c) ==
  LET cfg == ParseConfig(cfgKind[c])
  IN IF cfg = "null"
       THEN [attempted |-> FALSE, cfg |-> "none", skeleton |-> TRUE]
       ELSE [attempted |-> TRUE, cfg |-> cfg, skeleton |-> skeleton[c]]

\* One iteration of canvases.forEach with window.Chart present: whether
\* new Chart(...) is called, with which configuration, and the class left.
MountOne(c) ==
  LET cfg == ParseConfig(cfgKind[c])
      used == IF cfg = "null" THEN "default" ELSE cfg
  IN [attempted |-> TRUE, cfg |-> used, skeleton |-> skeleton[c]]

\* window.Chart absent: every canvas gets the class skeleton.
MountWithoutLibrary(c) ==
  [attempted |-> FALSE, cfg |-> "none", skeleton |-> TRUE]

\* Chart.js is loaded after the script ran.
LoadChartLibrary ==
  /\ ~libLoaded
  /\ libLoaded' = TRUE
  /\ UNCHANGED <<cfgKind, skeleton, mounted, tableVars, modalVars, copyVars>>

\* mountCharts(); `last` is the last canvas reached: new Chart(...) throws
\* there when last < NumCanvases, which ends the forEach.
MountCharts(last) ==
  LET reached(c) == ~libLoaded \/ c <= last
      effect(c) == IF ~libLoaded THEN MountWithoutLibrary(c) ELSE MountOne(c)
  IN /\ Canvases # {}
     /\ ~libLoaded => last = NumCanvases
     /\ skeleton' = [c \in Canvases |->
                       IF reached(c) THEN effect(c).skeleton ELSE skeleton[c]]
     /\ mounted' = [c \in Canvases |->
                      IF reached(c)
                        THEN [seen |-> TRUE, lib |-> libLoaded,
                              parsed |-> ParseConfig(cfgKind[c]) # "null",
                              attempted |-> effect(c).attempted,
                              cfg |-> effect(c).cfg, before |-> skeleton[c]]
                        ELSE mounted[c]]
     /\ UNCHANGED <<libLoaded, cfgKind, tableVars, modalVars, copyVars>>

(***************************************************************************)
(* Copy to clipboard: the .copy-btn click handler and PhPharma.copyText.   *)
(* Each is an async function: it starts the write, awaits it, and resumes  *)
(* when navigator.clipboard.writeText settles.                             *)
(***************************************************************************)
Calls == 1..MaxCalls

\* Texts a button carries (data-copy / data-copy-target) or a caller passes.
CopyTexts == {"", "+962 7"}

IdleCall ==
  [kind |-> "none", pc |-> "idle", outcome |-> "none", result |-> "none",
   threw |-> FALSE, added |-> FALSE]

\* Faulty variant: the rejection is not caught.
CopyTextSettledUncaught(outcome) ==
  IF outcome = "resolved"
    THEN [result |-> "true", threw |-> FALSE]
    ELSE [result |-> "none", threw |-> TRUE]

\* copyText after the await: return true, or the catch returns false.
CopyTextSettled(outcome) ==
  IF outcome = "resolved"
    THEN [result |-> "true", threw |-> FALSE]
    ELSE [result |-> "false", threw |-> FALSE]

\* The click handler after the await: the class "copied" it leaves, the
\* timers it starts, and whether an exception leaves the handler.
ButtonSettled(outcome, wasCopied) ==
  IF outcome = "resolved"
    THEN [copied |-> TRUE, timers |-> 1, threw |-> FALSE]
    ELSE [copied |-> wasCopied, timers |-> 0, threw |-> FALSE]

\* PhPharma.copyText(text) is called: the write starts.
CopyTextCall(i, text) ==
  /\ calls[i].pc = "idle"
  /\ calls' = [calls EXCEPT ![i] = [IdleCall EXCEPT !.kind = "api", !.pc = "awaiting"]]
  /\ UNCHANGED <<copied, timers, tableVars, modalVars, chartVars>>

\* click on a .copy-btn: returns at once when there is no text.
ButtonClick(i, text) ==
  /\ calls[i].pc = "idle"
  /\ calls' = [calls EXCEPT ![i] =
                 [IdleCall EXCEPT !.kind = "btn",
                                  !.pc = IF text = "" THEN "done" ELSE "awaiting"]]
  /\ UNCHANGED <<copied, timers, tableVars, modalVars, chartVars>>

\* navigator.clipboard.writeText settles and the async function resumes.
WriteSettles(i, outcome) ==
  /\ calls[i].pc = "awaiting"
  /\ IF calls[i].kind = "api"
       THEN LET r == CopyTextSettled(outcome)
            IN /\ calls' = [calls EXCEPT ![i] =
                              [@ EXCEPT !.pc = "done", !.outcome = outcome,
                                        !.result = r.result, !.threw = r.threw]]
               /\ UNCHANGED <<copied, timers>>
       ELSE LET r == ButtonSettled(outcome, copied)
            IN /\ calls' = [calls EXCEPT ![i] =
                              [@ EXCEPT !.pc = "done", !.outcome = outcome,
                                        !.threw = r.threw,
                                        !.added = ButtonSettled(outcome, FALSE).copied]]
               /\ copied' = r.copied
               /\ timers' = timers + r.timers
  /\ UNCHANGED <<tableVars, modalVars, chartVars>>

\* setTimeout(() => btn.classList.remove('copied'), 1500) fires.
TimerFires ==
  /\ timers > 0
  /\ timers' = timers - 1
  /\ copied' = FALSE
  /\ UNCHANGED <<calls, tableVars, modalVars, chartVars>>

(***************************************************************************)
(* Specifications: the whole page, and one per helper with the rest of the *)
(* page left alone.                                                        *)
(***************************************************************************)
TableNext ==
  \/ \E h \in Headers : SortClick(h)
  \/ \E v \in Queries : FilterInput(v)

ModalNext ==
  \/ \E m \in Modals : OpenClick(m)
  \/ \E m \in Modals : CloseClick(m)
  \/ \E m \in Modals : OverlayClick(m)
  \/ EscapeKey

ChartNext ==
  \/ LoadChartLibrary
  \/ \E last \in Canvases : MountCharts(last)

CopyNext ==
  \/ \E i \in Calls, text \in CopyTexts : CopyTextCall(i, text)
  \/ \E i \in Calls, text \in CopyTexts : ButtonClick(i, text)
  \/ \E i \in Calls, outcome \in {"resolved", "rejected"} : WriteSettles(i, outcome)
  \/ TimerFires

\* What hist holds before any sort: the order of the markup.
Unsorted(ord) ==
  [sorted |-> FALSE, idx |-> -1, type |-> "string", dir |-> 0, order |-> ord,
   col |-> NULL, attr |-> NULL]

\* The page when the script has run: any table, any chart markup.
Init ==
  /\ cells \in [Rows -> RowPool]
  /\ order = [i \in Rows |-> i]
  /\ display = [r \in Rows |-> ""]
  /\ inputValue = ""
  /\ sortCol = NULL
  /\ sortDir = NULL
  /\ hist = <<Unsorted(order)>>
  /\ modalHidden = [m \in Modals |-> TRUE]
  /\ ariaHidden = [m \in Modals |-> "true"]
  /\ modalLog = "none"
  /\ libLoaded \in BOOLEAN
  /\ cfgKind \in [Canvases -> CfgKinds]
  /\ skeleton = [c \in Canvases |-> FALSE]
  /\ mounted = [c \in Canvases |-> NotMounted]
  /\ calls = [i \in Calls |-> IdleCall]
  /\ copied = FALSE
  /\ timers = 0

Next == TableNext \/ ModalNext \/ ChartNext \/ CopyNext
Spec == Init /\ [][Next]_vars

\* Any table; no chart canvas configured, Chart.js absent.
InitTable ==
  /\ cells \in [Rows -> RowPool]
  /\ order = [i \in Rows |-> i]
  /\ display = [r \in Rows |-> ""]
  /\ inputValue = ""
  /\ sortCol = NULL
  /\ sortDir = NULL
  /\ hist = <<Unsorted(order)>>
  /\ modalHidden = [m \in Modals |-> TRUE]
  /\ ariaHidden = [m \in Modals |-> "true"]
  /\ modalLog = "none"
  /\ libLoaded = FALSE
  /\ cfgKind = [c \in Canvases |-> "absent"]
  /\ skeleton = [c \in Canvases |-> FALSE]
  /\ mounted = [c \in Canvases |-> NotMounted]
  /\ calls = [i \in Calls |-> IdleCall]
  /\ copied = FALSE
  /\ timers = 0

\* One fixed table; the page's modals, charts or clipboard calls vary.
InitModal ==
  /\ cells = [r \in Rows |-> <<"Pharma Co", "30">>]
  /\ order = [i \in Rows |-> i]
  /\ display = [r \in Rows |-> ""]
  /\ inputValue = ""
  /\ sortCol = NULL
  /\ sortDir = NULL
  /\ hist = <<Unsorted(order)>>
  /\ modalHidden = [m \in Modals |-> TRUE]
  /\ ariaHidden = [m \in Modals |-> "true"]
  /\ modalLog = "none"
  /\ libLoaded = FALSE
  /\ cfgKind = [c \in Canvases |-> "absent"]
  /\ skeleton = [c \in Canvases |-> FALSE]
  /\ mounted = [c \in Canvases |-> NotMounted]
  /\ calls = [i \in Calls |-> IdleCall]
  /\ copied = FALSE
  /\ timers = 0

InitChart ==
  /\ cells = [r \in Rows |-> <<"Pharma Co", "30">>]
  /\ order = [i \in Rows |-> i]
  /\ display = [r \in Rows |-> ""]
  /\ inputValue = ""
  /\ sortCol = NULL
  /\ sortDir = NULL
  /\ hist = <<Unsorted(order)>>
  /\ modalHidden = [m \in Modals |-> TRUE]
  /\ ariaHidden = [m \in Modals |-> "true"]
  /\ modalLog = "none"
  /\ libLoaded \in BOOLEAN
  /\ cfgKind \in [Canvases -> CfgKinds]
  /\ skeleton = [c \in Canvases |-> FALSE]
  /\ mounted = [c \in Canvases |-> NotMounted]
  /\ calls = [i \in Calls |-> IdleCall]
  /\ copied = FALSE
  /\ timers = 0

InitCopy == InitModal

SpecTable == InitTable /\ [][TableNext]_vars
SpecModal == InitModal /\ [][ModalNext]_vars
SpecChart == InitChart /\ [][ChartNext]_vars
SpecCopy == InitCopy /\ [][CopyNext]_vars

(***************************************************************************)
(* Properties of the table sorter and filter, checked under SpecTable.     *)
(* hist[k] for k >= 2 describes a sort and hist[k-1] the state it found.   *)
(***************************************************************************)
Pos(ord, r) == CHOOSE i \in 1..Len(ord) : ord[i] = r
KeyOf(r, index, type) == SortKey[CellText(cells[r], index)][type]
Sorts == {k \in 2..Len(hist) : hist[k].sorted}
DirName(dir) == IF dir = 1 THEN "asc" ELSE "desc"

\* C1: a header activation on column c sorts descending exactly when the
\* recorded sort state it finds is (c, "asc"), ascending otherwise, and
\* leaves (c, direction used) recorded; so a first activation is ascending,
\* repeated activations of one column alternate, and a change of column
\* starts ascending again.
C1_DirectionToggle ==
  /\ \A k \in Sorts :
       LET cur == hist[k]
           prv == hist[k - 1]
       IN /\ cur.dir \in {1, -1}
          /\ (cur.dir = -1) <=> (prv.col = String(cur.idx) /\ prv.attr = "asc")
          /\ cur.col = String(cur.idx) /\ cur.attr = DirName(cur.dir)
          /\ ~prv.sorted => cur.dir = 1
          /\ (prv.sorted /\ prv.idx = cur.idx) => cur.dir = -prv.dir
          /\ (prv.sorted /\ prv.idx # cur.idx) => cur.dir = 1
  /\ sortCol = hist[Len(hist)].col
  /\ sortDir = hist[Len(hist)].attr

\* C1 witness: a column activated after another one, then activated again:
\* ascending, then descending.
C1_Witness ==
  /\ Len(hist) = 3
  /\ hist[1].sorted /\ hist[1].idx # hist[2].idx /\ hist[1].dir = 1
  /\ hist[2].idx = hist[3].idx
  /\ hist[2].dir = 1 /\ hist[3].dir = -1
  /\ sortDir = "desc"

SortedByKey(ord, index, type, dir) ==
  \A i, j \in 1..Len(ord) :
     i < j => IF dir = 1
                THEN ~Greater(KeyOf(ord[i], index, type), KeyOf(ord[j], index, type))
                ELSE ~Greater(KeyOf(ord[j], index, type), KeyOf(ord[i], index, type))

\* b follows a in ord when ascending, precedes it when descending.
Ranked(ord, a, b, dir) ==
  IF dir = 1 THEN Pos(ord, a) < Pos(ord, b) ELSE Pos(ord, b) < Pos(ord, a)

\* C2: after a header activation the rows of the body are ordered by their
\* key at the column, non-decreasing when the direction used was ascending
\* and non-increasing when descending; number cells 5, 30, 100 rank in that
\* numeric order.
C2_SortedByKey ==
  /\ order = hist[Len(hist)].order
  /\ \A k \in Sorts :
       /\ SortedByKey(hist[k].order, hist[k].idx, hist[k].type, hist[k].dir)
       /\ hist[k].idx = 1 =>
            \A a, b \in Rows :
               (\/ /\ CellText(cells[a], 1) = "5"
                   /\ CellText(cells[b], 1) \in {"30", "100"}
                \/ /\ CellText(cells[a], 1) = "30"
                   /\ CellText(cells[b], 1) = "100")
                 => Ranked(hist[k].order, a, b, hist[k].dir)

\* C2 witness: cells 30, 5, 100 after the second click on their header.
C2_Witness ==
  /\ NumRows = 3
  /\ [r \in Rows |-> CellText(cells[r], 1)] = <<"30", "5", "100">>
  /\ hist[Len(hist)].sorted /\ hist[Len(hist)].idx = 1 /\ hist[Len(hist)].dir = -1
  /\ [i \in 1..Len(order) |-> CellText(cells[order[i]], 1)] = <<"100", "30", "5">>

AllKeysEqual(index, type) ==
  \A a, b \in Rows : StrictEq(KeyOf(a, index, type), KeyOf(b, index, type))

\* Three activations in a row of one column.
SameColumnRun == Len(hist) = 3 /\ hist[1].sorted /\ hist[1].idx = hist[2].idx
                   /\ hist[2].idx = hist[3].idx

\* C3 as stated: with no other column sorted in between, the order left by
\* an activation of column c comes back after two further activations of
\* c, and after one further activation it has not come back.
C3_Original ==
  /\ SameColumnRun => hist[3].order = hist[1].order
  /\ \A k \in Sorts :
       (hist[k - 1].sorted /\ hist[k - 1].idx = hist[k].idx)
         => hist[k].order # hist[k - 1].order

\* C3 amended: every two further activations of c restore the order; one
\* further activation leaves a different order exactly when two rows have
\* different keys at c (with all keys equal every activation leaves the
\* order as it was).
C3_Cycle ==
  /\ SameColumnRun => hist[3].order = hist[1].order
  /\ \A k \in Sorts :
       (hist[k - 1].sorted /\ hist[k - 1].idx = hist[k].idx)
         => (hist[k].order = hist[k - 1].order <=> AllKeysEqual(hist[k].idx, hist[k].type))

\* C3 witness: three activations of one column over rows with different
\* keys: ascending, a different descending order, the ascending one again.
C3_Witness ==
  /\ SameColumnRun
  /\ ~AllKeysEqual(hist[3].idx, hist[3].type)
  /\ hist[2].order # hist[1].order
  /\ hist[3].order = hist[1].order
  /\ order = hist[3].order

\* The text at the column parses to a finite number.
NumberParses == [txt \in CellTexts |-> isFinite(parseFloat(stripNumeric(trim(txt))))]
Parses(r, index) == NumberParses[CellText(cells[r], index)]

\* C4: on a number column a row whose cell does not parse to a finite number,
\* or that has no cell there, comes before every row with a parseable value
\* after an ascending sort and after every such row after a descending one.
C4_UnparseableFirst ==
  \A k \in Sorts :
     hist[k].type = "number" =>
       \A a, b \in Rows :
          (~Parses(a, hist[k].idx) /\ Parses(b, hist[k].idx))
            => Ranked(hist[k].order, a, b, hist[k].dir)

\* C4 witness: a descending sort of the third column, which one row lacks
\* and another holds a negative number in.
C4_Witness ==
  /\ hist[Len(hist)].sorted /\ hist[Len(hist)].idx = 2 /\ hist[Len(hist)].dir = -1
  /\ \E a, b \in Rows :
        /\ Len(cells[a]) = 2
        /\ Len(cells[b]) = 3 /\ Parses(b, 2)
        /\ Pos(order, b) < Pos(order, a)

Visible(r) == display[r] = ""

\* C5: a row is visible exactly when the trimmed lowercased query is empty or
\* a substring of the row's trimmed lowercased text, whatever was typed or
\* sorted before; the query "ph" shows "Pharma Co" and "Alpha", not "Other".
C5_FilterVisibility ==
  /\ \A r \in Rows :
       LET q == toLowerCase(trim(inputValue))
           text == toLowerCase(trim(textContent(cells[r])))
       IN Visible(r) <=> (q = "" \/ includes(text, q))
  /\ inputValue = "ph" =>
       \A r \in Rows :
          /\ cells[r][1] \in {"Pharma Co", "Alpha"} => Visible(r)
          /\ cells[r][1] = "Other" => ~Visible(r)

\* C5 witness: the query "ph" over "Pharma Co", "Other", "Alpha", typed
\* after a sort.
C5_Witness ==
  /\ NumRows = 3
  /\ [r \in Rows |-> cells[r][1]] = <<"Pharma Co", "Other", "Alpha">>
  /\ inputValue = "ph"
  /\ display = <<"", "none", "">>
  /\ hist[Len(hist)].sorted

IsPermutation(s, t) ==
  /\ Len(s) = Len(t)
  /\ \A x \in Rows : Cardinality({i \in 1..Len(s) : s[i] = x})
                       = Cardinality({i \in 1..Len(t) : t[i] = x})

\* A step that changed what the filter handler writes, or what the sort
\* handler writes.
FilterEffect == display' # display \/ inputValue' # inputValue
SortEffect == order' # order \/ sortCol' # sortCol \/ sortDir' # sortDir

\* C6: a filter event leaves the order, membership and cells of the rows as
\* they were; a sort event leaves every visibility flag and cell as it was
\* and its result is a permutation of the rows of the body, hidden ones too.
C6_Frame ==
  [][ /\ cells' = cells
      /\ FilterEffect => order' = order
      /\ SortEffect => display' = display
      /\ IsPermutation(order', order)
      /\ {order'[i] : i \in 1..Len(order')} = Rows ]_vars

\* C6 witness: rows hidden by the filter and a sort that moved rows.
C6_Witness ==
  /\ \E r \in Rows : ~Visible(r)
  /\ \E r \in Rows : Visible(r)
  /\ hist[Len(hist)].sorted
  /\ hist[Len(hist)].order # hist[Len(hist) - 1].order
  /\ \E r \in Rows : ~Visible(r) /\ Pos(order, r) # r

\* C7: rows whose keys at the sorted column are equal keep the order they had
\* just before the sort, ascending or descending; "Apple" and " apple " are
\* equal keys of a string column.
C7_Stable ==
  \A k \in Sorts :
     \A a, b \in Rows :
        /\ (/\ StrictEq(KeyOf(a, hist[k].idx, hist[k].type), KeyOf(b, hist[k].idx, hist[k].type))
            /\ Pos(hist[k - 1].order, a) < Pos(hist[k - 1].order, b))
             => Pos(hist[k].order, a) < Pos(hist[k].order, b)
        /\ (/\ hist[k].idx = 0
            /\ cells[a][1] = "Apple" /\ cells[b][1] = " apple "
            /\ Pos(hist[k - 1].order, a) < Pos(hist[k - 1].order, b))
             => Pos(hist[k].order, a) < Pos(hist[k].order, b)

\* C7 witness: a descending sort by name that moved rows while " apple "
\* stayed ahead of "Apple".
C7_Witness ==
  /\ hist[Len(hist)].sorted /\ hist[Len(hist)].idx = 0 /\ hist[Len(hist)].dir = -1
  /\ hist[Len(hist)].order # hist[Len(hist) - 1].order
  /\ \E a, b \in Rows :
        /\ cells[a][1] = " apple " /\ cells[b][1] = "Apple"
        /\ Pos(hist[Len(hist) - 1].order, a) < Pos(hist[Len(hist) - 1].order, b)
        /\ Pos(order, a) < Pos(order, b)

(***************************************************************************)
(* Properties of the clipboard helpers, checked under SpecCopy.            *)
(***************************************************************************)
Done(i) == calls[i].pc = "done"

\* C8: PhPharma.copyText completes with false when the clipboard write is
\* rejected and with true when it succeeds, and no exception leaves it; a
\* rejected write in a .copy-btn click handler is caught and that click
\* does not set the class "copied", which only a successful write sets.
C8_CopyOutcome ==
  /\ \A i \in Calls :
       Done(i) =>
         /\ ~calls[i].threw
         /\ (calls[i].kind = "api" /\ calls[i].outcome = "rejected")
              => calls[i].result = "false"
         /\ (calls[i].kind = "api" /\ calls[i].outcome = "resolved")
              => calls[i].result = "true"
         /\ (calls[i].kind = "btn" /\ calls[i].outcome = "rejected")
              => ~calls[i].added
  /\ copied => \E i \in Calls :
                  Done(i) /\ calls[i].kind = "btn" /\ calls[i].outcome = "resolved"

\* C8 witness: a rejected copyText call that returned false and a rejected
\* button click, with the class "copied" not set.
C8_Witness ==
  /\ ~copied
  /\ \E i, j \in Calls :
        /\ Done(i) /\ calls[i].kind = "api" /\ calls[i].outcome = "rejected"
        /\ calls[i].result = "false"
        /\ Done(j) /\ calls[j].kind = "btn" /\ calls[j].outcome = "rejected"

(***************************************************************************)
(* Properties of mountCharts, checked under SpecChart.  mounted[c] is what *)
(* the last mountCharts call that reached canvas c did.                    *)
(***************************************************************************)
\* C9 as stated: a canvas is marked with the placeholder and not rendered
\* when the library is absent or its configuration did not parse; rendering
\* is delegated only when the library is present and the configuration
\* parsed.
C9_Original ==
  \A c \in Canvases :
     mounted[c].seen =>
       /\ (~mounted[c].lib \/ ~mounted[c].parsed)
            => (skeleton[c] /\ ~mounted[c].attempted)
       /\ mounted[c].attempted => (mounted[c].lib /\ mounted[c].parsed)

\* C9 amended: with the library absent every canvas is marked with the
\* placeholder and nothing is rendered; with the library present no
\* placeholder is added and rendering is delegated for every canvas
\* reached, with the parsed configuration when it parsed and with the
\* built-in default configuration when it is missing or does not parse.
C9_MountCharts ==
  \A c \in Canvases :
     IF ~mounted[c].seen THEN ~skeleton[c]
     ELSE IF ~mounted[c].lib
       THEN skeleton[c] /\ ~mounted[c].attempted
       ELSE /\ mounted[c].attempted
            /\ mounted[c].cfg = (IF mounted[c].parsed THEN "parsed" ELSE "default")
            /\ skeleton[c] = mounted[c].before

\* C9 witness: with Chart.js present, a canvas whose configuration threw in
\* JSON.parse is rendered with the default configuration, without
\* placeholder, next to a canvas rendered with its parsed configuration.
C9_Witness ==
  \E c, d \in Canvases :
     /\ ParseThrew(cfgKind[c])
     /\ mounted[c].seen /\ mounted[c].lib /\ mounted[c].attempted
     /\ mounted[c].cfg = "default" /\ ~skeleton[c]
     /\ mounted[d].seen /\ mounted[d].lib /\ mounted[d].cfg = "parsed"

(***************************************************************************)
(* Property of the modal helpers, checked under SpecModal.                 *)
(***************************************************************************)
\* C10: after any open clicks, close clicks, overlay clicks and Escape
\* presses a modal has the class "hidden" exactly when its aria-hidden is
\* "true".
C10_AriaMatchesHidden ==
  \A m \in Modals : modalHidden[m] <=> ariaHidden[m] = "true"

====
